---- MODULE Spec2Model ----
(***************************************************************************)
(* Build-signal listener and critical-path analyser of buck2               *)
(* (app/buck2_build_api/src/actions/build_listener.rs).                    *)
(*                                                                         *)
(* Producers send BuildSignals through clones of a BuildSignalSender; one  *)
(* background task (BuildSignalReceiver::run_and_log) dispatches them to a *)
(* backend (DefaultBackend or LongestPathGraphBackend) and, on             *)
(* BuildFinished or channel closure, calls finish() and emits a            *)
(* BuildGraphExecutionInfo.  scope() creates the pair, runs the user       *)
(* closure, sends BuildFinished and joins the task.                        *)
(***************************************************************************)
EXTENDS Integers, Sequences, FiniteSets, TLC

(***************************************************************************)
(* Bounds of the model.                                                    *)
(***************************************************************************)
\* Largest user duration a signal carries (one unit stands for one second).
MaxDur == 2
\* Number of signal() calls the producers make in one scope() call.
MaxSignals == 2

(***************************************************************************)
(* Small helpers on sequences and sets.                                    *)
(***************************************************************************)
Range(s) == {s[i] : i \in 1..Len(s)}

RECURSIVE SumSeq(_)
SumSeq(s) == IF s = <<>> THEN 0 ELSE Head(s) + SumSeq(Tail(s))

Max(a, b) == IF a >= b THEN a ELSE b

Reverse(s) == [i \in 1..Len(s) |-> s[Len(s) + 1 - i]]

\* Duration::saturating_sub
SaturatingSub(a, b) == IF a >= b THEN a - b ELSE 0

(***************************************************************************)
(* NodeKey: identity of a DAG vertex, a tagged variant.                    *)
(***************************************************************************)
ActionKeyIds == {1, 2}
ProjectionIds == {1}
LabelIds == {1, 2}

ActionKey(i) == [kind |-> "ActionKey", id |-> i]
TransitiveSetProjection(i) == [kind |-> "TransitiveSetProjection", id |-> i]
Analysis(i) == [kind |-> "Analysis", id |-> i]

NodeKey ==
    {ActionKey(i) : i \in ActionKeyIds}
        \cup {TransitiveSetProjection(i) : i \in ProjectionIds}
        \cup {Analysis(i) : i \in LabelIds}

\* Option<NodeKey>::None, Option<SpanId>::None, Option<Arc<RegisteredAction>>::None
NoKey == [kind |-> "None", id |-> 0]
NoSpan == 0
NoAction == 0

(***************************************************************************)
(* NodeDuration and NodeData.                                              *)
(***************************************************************************)
NodeDuration(u, t) == [user |-> u, total |-> t]

critical_path_duration(d) == d.user

zero == NodeDuration(0, 0)

NodeData(action, duration, span_id) ==
    [action |-> action, duration |-> duration, span_id |-> span_id]

(***************************************************************************)
(* ArtifactGroup, as far as the listener looks at it: an Artifact with an  *)
(* optional action key (id 0: a source artifact, no action key) or a       *)
(* TransitiveSetProjection key.                                            *)
(***************************************************************************)
Artifact(i) == [ag |-> "Artifact", id |-> i]
ProjectionGroup(i) == [ag |-> "TransitiveSetProjection", id |-> i]

\* The filter_map of process_action and process_top_level_target.
RECURSIVE ArtifactKeys(_)
ArtifactKeys(groups) ==
    IF groups = <<>> THEN <<>>
    ELSE LET g == Head(groups)
             rest == ArtifactKeys(Tail(groups))
         IN  IF g.ag = "Artifact"
             THEN IF g.id = 0 THEN rest ELSE <<ActionKey(g.id)>> \o rest
             ELSE <<TransitiveSetProjection(g.id)>> \o rest

(***************************************************************************)
(* BuildSignal: the six variants.  One record shape for all of them:       *)
(*   key      the subject (action key, projection key or label id)         *)
(*   inputs   ActionExecution: action.inputs(); TransitiveSetComputation:  *)
(*            artifacts; ActionRedirection: <<dest>>; Analysis: the labels *)
(*            of node.deps(); TopLevelTarget: artifacts                    *)
(*   set_deps TransitiveSetComputation: set_deps                           *)
(*   owner    ActionExecution: the label of action.owner(), 0 when the     *)
(*            owner is no target label (anon target, bxl)                  *)
(*   inputs_err  ActionExecution: action.inputs() returns Err              *)
(* A HashSet field is given as the sequence its iteration yields.          *)
(***************************************************************************)
Signal(type, key, inputs, set_deps, owner, duration, span_id, inputs_err) ==
    [type |-> type, key |-> key, inputs |-> inputs, set_deps |-> set_deps,
     owner |-> owner, duration |-> duration, span_id |-> span_id,
     inputs_err |-> inputs_err]

ActionExecutionSignal(key, inputs, owner, duration, span_id, inputs_err) ==
    Signal("ActionExecution", key, inputs, <<>>, owner, duration, span_id, inputs_err)

TransitiveSetComputationSignal(key, artifacts, set_deps) ==
    Signal("TransitiveSetComputation", key, artifacts, set_deps, 0, zero, NoSpan, FALSE)

ActionRedirectionSignal(key, dest) ==
    Signal("ActionRedirection", key, <<dest>>, <<>>, 0, zero, NoSpan, FALSE)

AnalysisSignal(label, deps, duration, span_id) ==
    Signal("Analysis", label, deps, <<>>, 0, duration, span_id, FALSE)

TopLevelTargetSignal(label, artifacts) ==
    Signal("TopLevelTarget", label, artifacts, <<>>, 0, zero, NoSpan, FALSE)

BuildFinished == Signal("BuildFinished", 0, <<>>, <<>>, 0, zero, NoSpan, FALSE)

(***************************************************************************)
(* CriticalPathNode and the predecessor map of DefaultBackend.             *)
(***************************************************************************)
CriticalPathNode(duration, value, prev) ==
    [duration |-> duration, value |-> value, prev |-> prev]

EmptyMap == [k \in {} |-> CriticalPathNode(0, NodeData(NoAction, zero, NoSpan), NoKey)]

MapInsert(m, key, node) ==
    [k \in (DOMAIN m) \cup {key} |-> IF k = key THEN node ELSE m[k]]

\* A mutation of DefaultBackend::new: the counts do not start at zero.
DefaultBackendNewOneNode ==
    [kind |-> "Default", predecessors |-> EmptyMap, num_nodes |-> 1, num_edges |-> 1]

\* DefaultBackend::new
DefaultBackendNew ==
    [kind |-> "Default", predecessors |-> EmptyMap, num_nodes |-> 0, num_edges |-> 0]

\* itertools unique(): the first occurrence of every element, in order.
RECURSIVE UniqueFrom(_, _)
UniqueFrom(s, seen) ==
    IF s = <<>> THEN <<>>
    ELSE IF Head(s) \in seen THEN UniqueFrom(Tail(s), seen)
         ELSE <<Head(s)>> \o UniqueFrom(Tail(s), seen \cup {Head(s)})

Unique(s) == UniqueFrom(s, {})

\* The (node_key, node_data.duration) pairs the filter_map of process_node keeps.
RECURSIVE PresentDeps(_, _)
PresentDeps(predecessors, deps) ==
    IF deps = <<>> THEN <<>>
    ELSE IF Head(deps) \in DOMAIN predecessors
         THEN <<[key |-> Head(deps), duration |-> predecessors[Head(deps)].duration]>>
                  \o PresentDeps(predecessors, Tail(deps))
         ELSE PresentDeps(predecessors, Tail(deps))

\* A mutation of max_by_key: min_by_key, the dep of least cumulative
\* duration.
MinByKey(s) ==
    IF s = <<>> THEN <<>>
    ELSE LET i == CHOOSE i \in 1..Len(s) :
                      /\ \A j \in 1..Len(s) : s[i].duration <= s[j].duration
                      /\ \A j \in 1..(i - 1) : s[i].duration < s[j].duration
         IN  <<s[i]>>

\* A mutation of max_by_key: of several equally maximum elements the first
\* one is returned.
MaxByKeyFirst(s) ==
    IF s = <<>> THEN <<>>
    ELSE LET i == CHOOSE i \in 1..Len(s) :
                      /\ \A j \in 1..Len(s) : s[j].duration <= s[i].duration
                      /\ \A j \in 1..(i - 1) : s[j].duration < s[i].duration
         IN  <<s[i]>>

\* Iterator::max_by_key on a sequence: of several equally maximum elements
\* the last one is returned.  <<>> stands for None.
MaxByKeyLast(s) ==
    IF s = <<>> THEN <<>>
    ELSE LET i == CHOOSE i \in 1..Len(s) :
                      /\ \A j \in 1..Len(s) : s[j].duration <= s[i].duration
                      /\ \A j \in (i + 1)..Len(s) : s[j].duration < s[i].duration
         IN  <<s[i]>>

\* A mutation of longest_ancestor: the filter to the deps is lost once the
\* node has a dep, and every recorded node competes.
LongestAncestorOfAll(predecessors, dep_keys) ==
    IF Unique(dep_keys) = <<>> \/ DOMAIN predecessors = {} THEN <<>>
    ELSE LET k == CHOOSE k \in DOMAIN predecessors :
                      \A j \in DOMAIN predecessors :
                          predecessors[j].duration <= predecessors[k].duration
         IN  <<[key |-> k, duration |-> predecessors[k].duration]>>

\* longest_ancestor of DefaultBackend::process_node.
LongestAncestor(predecessors, dep_keys) ==
    MaxByKeyLast(PresentDeps(predecessors, Unique(dep_keys)))

\* DefaultBackend::process_node
DefaultProcessNode(b, key, value, duration, dep_keys, span_id) ==
    LET longest_ancestor == LongestAncestor(b.predecessors, dep_keys)
        data == NodeData(value, duration, span_id)
        node == IF longest_ancestor # <<>>
                THEN CriticalPathNode(
                         longest_ancestor[1].duration + critical_path_duration(duration),
                         data, longest_ancestor[1].key)
                ELSE CriticalPathNode(critical_path_duration(duration), data, NoKey)
    IN  [kind |-> "Default",
         predecessors |-> MapInsert(b.predecessors, key, node),
         num_nodes |-> b.num_nodes + 1,
         num_edges |-> b.num_edges + Len(Unique(dep_keys))]

(***************************************************************************)
(* extract_critical_path.  The terminal is the max_by_key over the         *)
(* HashMap's iteration, whose order is arbitrary: any node of maximum      *)
(* cumulative duration.                                                    *)
(***************************************************************************)
Terminals(predecessors) ==
    {k \in DOMAIN predecessors :
        \A j \in DOMAIN predecessors :
            predecessors[j].duration <= predecessors[k].duration}

\* The unfold over prev pointers, terminal first; it takes at most `fuel` steps.
RECURSIVE Unfold(_, _, _)
Unfold(predecessors, maybe_key, fuel) ==
    IF maybe_key = NoKey \/ maybe_key \notin DOMAIN predecessors \/ fuel = 0 THEN <<>>
    ELSE <<[key |-> maybe_key,
            value |-> predecessors[maybe_key].value,
            duration |-> predecessors[maybe_key].duration]>>
             \o Unfold(predecessors, predecessors[maybe_key].prev, fuel - 1)

\* The unfold never ends when the prev pointers reachable from the terminal
\* form a cycle: it then yields more entries than the map has keys.
UnfoldDiverges(predecessors, terminal) ==
    Len(Unfold(predecessors, terminal, Cardinality(DOMAIN predecessors) + 1))
        > Cardinality(DOMAIN predecessors)

\* A mutation of extract_critical_path: the differences are not taken, the
\* entries keep their cumulative durations.
AdjacentDifferencesNotTaken(path) == path

\* path.reverse() and the differences of adjacent cumulative durations.
AdjacentDifferences(path) ==
    [i \in 1..Len(path) |->
        IF i = 1 THEN path[i]
        ELSE [path[i] EXCEPT !.duration =
                  SaturatingSub(path[i].duration, path[i - 1].duration)]]

\* A mutation of extract_critical_path: path.reverse() is lost, the path
\* stays terminal first.
extract_critical_path_unreversed(predecessors, terminal) ==
    AdjacentDifferences(Unfold(predecessors, terminal, Cardinality(DOMAIN predecessors)))

extract_critical_path(predecessors, terminal) ==
    AdjacentDifferences(
        Reverse(Unfold(predecessors, terminal, Cardinality(DOMAIN predecessors))))

(***************************************************************************)
(* BuildInfo and DefaultBackend::finish.                                   *)
(***************************************************************************)
\* Option<Duration>::None as the potential improvement of an entry.
NoPotential == -1

BuildInfo(critical_path, num_nodes, num_edges) ==
    [critical_path |-> critical_path, num_nodes |-> num_nodes, num_edges |-> num_edges]

PathEntry(key, data, potential) == [key |-> key, data |-> data, potential |-> potential]

\* A mutation of DefaultBackend::finish: each entry carries Some(zero) as its
\* potential improvement.
DefaultFinishZeroPotential(b, terminal) ==
    LET path == extract_critical_path(b.predecessors, terminal)
    IN  BuildInfo([i \in 1..Len(path) |-> PathEntry(path[i].key, path[i].value, 0)],
                  b.num_nodes, b.num_edges)

\* DefaultBackend::finish, the terminal being the one the max_by_key yields.
DefaultFinish(b, terminal) ==
    LET path == extract_critical_path(b.predecessors, terminal)
    IN  BuildInfo([i \in 1..Len(path) |->
                      PathEntry(path[i].key, path[i].value, NoPotential)],
                  b.num_nodes, b.num_edges)

(***************************************************************************)
(* buck2_critical_path::GraphBuilder, Graph and                            *)
(* compute_critical_path_potentials.  The crate is outside the files at    *)
(* hand; these definitions follow the specification's sections 3, 4.5, 7.  *)
(***************************************************************************)
\* GraphBuilder::new.  Vertex ids are the positions 1..Len(keys).
GraphBuilderNew == [ok |-> TRUE, keys |-> <<>>, deps |-> <<>>, data |-> <<>>]

\* The builder an Err(..) leaves behind.
GraphBuilderErr(e) ==
    [ok |-> FALSE, keys |-> <<>>, deps |-> <<>>, data |-> <<>>, err |-> e]

\* PushError::DuplicateKey and the failure of the longest-path computation.
DuplicateKey(key) == [error |-> "DuplicateKey", key |-> key]
ComputationFailure == [error |-> "ComputationFailure", key |-> NoKey]

\* GraphBuilder::push: one vertex with its out-edge list; a duplicate vertex
\* is rejected.
GraphBuilderPush(builder, key, dep_keys, data) ==
    IF key \in Range(builder.keys) THEN GraphBuilderErr(DuplicateKey(key))
    ELSE [ok |-> TRUE,
          keys |-> Append(builder.keys, key),
          deps |-> Append(builder.deps, Unique(dep_keys)),
          data |-> Append(builder.data, data)]

\* keys.get(key): the vertex id of a key, 0 when the key was never pushed.
VertexOf(keys, key) ==
    IF key \in Range(keys) THEN CHOOSE i \in 1..Len(keys) : keys[i] = key ELSE 0

RECURSIVE ResolveEdges(_, _)
ResolveEdges(keys, dep_keys) ==
    IF dep_keys = <<>> THEN <<>>
    ELSE IF VertexOf(keys, Head(dep_keys)) = 0 THEN ResolveEdges(keys, Tail(dep_keys))
         ELSE <<VertexOf(keys, Head(dep_keys))>> \o ResolveEdges(keys, Tail(dep_keys))

\* GraphBuilder::finish: the graph (out-edges per vertex id); an edge to a
\* key never pushed is dropped, a forward reference is kept.
GraphBuilderFinish(builder) ==
    [i \in 1..Len(builder.keys) |-> ResolveEdges(builder.keys, builder.deps[i])]

vertices_count(graph) == Len(graph)

edges_count(graph) == SumSeq([i \in 1..Len(graph) |-> Len(graph[i])])

\* Graph::add_edges: one more out-edge for every vertex whose slot is set.
add_edges(graph, first_analysis) ==
    [i \in 1..Len(graph) |->
        IF first_analysis[i] = 0 THEN graph[i]
        ELSE Append(graph[i], first_analysis[i])]

\* The vertices reachable from v in at least one step, within n rounds.
RECURSIVE ReachWithin(_, _, _)
ReachWithin(graph, from, n) ==
    IF n = 0 THEN from
    ELSE ReachWithin(graph,
                     from \cup UNION {Range(graph[d]) : d \in from}, n - 1)

IsCyclic(graph) ==
    \E v \in 1..Len(graph) : v \in ReachWithin(graph, Range(graph[v]), Len(graph))

\* The cost of the longest path ending at every vertex of an acyclic graph:
\* the vertex's duration plus the largest cost among its out-edges' targets.
RECURSIVE LongestCosts(_, _, _)
LongestCosts(graph, durations, n) ==
    IF n = 0 THEN durations
    ELSE LET prev == LongestCosts(graph, durations, n - 1)
         IN  [v \in 1..Len(graph) |->
                 durations[v]
                     + (IF graph[v] = <<>> THEN 0
                        ELSE CHOOSE c \in {prev[d] : d \in Range(graph[v])} :
                                 \A d \in Range(graph[v]) : prev[d] <= c)]

LongestPathCost(graph, durations) ==
    IF Len(graph) = 0 THEN 0
    ELSE LET costs == LongestCosts(graph, durations, Len(graph))
         IN  CHOOSE c \in Range(costs) : \A v \in 1..Len(graph) : costs[v] <= c

\* The longest paths ending at vertex v, root first; ties leave several.
RECURSIVE LongestPathsTo(_, _, _, _)
LongestPathsTo(graph, costs, v, fuel) ==
    IF graph[v] = <<>> \/ fuel = 0 THEN {<<v>>}
    ELSE LET best == {d \in Range(graph[v]) :
                         \A e \in Range(graph[v]) : costs[e] <= costs[d]}
         IN  UNION {{Append(p, v) : p \in LongestPathsTo(graph, costs, d, fuel - 1)} :
                       d \in best}

\* compute_critical_path_potentials: the results it may return for an acyclic
\* graph, each (critical_path, critical_path_cost, replacement_durations);
\* replacement_durations[i] is the longest-path cost with the duration of the
\* i-th vertex of the critical path set to zero.
CriticalPathPotentials(graph, durations) ==
    IF Len(graph) = 0
    THEN {[critical_path |-> <<>>, critical_path_cost |-> 0,
           replacement_durations |-> <<>>]}
    ELSE LET costs == LongestCosts(graph, durations, Len(graph))
             cost == LongestPathCost(graph, durations)
             terminals == {v \in 1..Len(graph) : costs[v] = cost}
             paths == UNION {LongestPathsTo(graph, costs, t, Len(graph)) :
                                t \in terminals}
         IN  {[critical_path |-> p,
               critical_path_cost |-> cost,
               replacement_durations |->
                   [i \in 1..Len(p) |->
                       LongestPathCost(graph, [durations EXCEPT ![p[i]] = 0])]] :
                 p \in paths}

(***************************************************************************)
(* LongestPathGraphBackend.                                                *)
(***************************************************************************)
VisibilityEdge(node, makes_visible) == [node |-> node, makes_visible |-> makes_visible]

\* LongestPathGraphBackend::new
LongestPathGraphBackendNew ==
    [kind |-> "LongestPath", builder |-> GraphBuilderNew, top_level_analysis |-> <<>>]

\* process_node without the early return on Err(..): the push is made on
\* whatever the builder slot holds.
LongestPathProcessNodeNoEarlyReturn(b, key, action, duration, dep_keys, span_id) ==
    [b EXCEPT !.builder =
        GraphBuilderPush(b.builder, key, dep_keys,
                         NodeData(action, duration, span_id))]

\* LongestPathGraphBackend::process_node
LongestPathProcessNode(b, key, action, duration, dep_keys, span_id) ==
    IF ~b.builder.ok THEN b
    ELSE [b EXCEPT !.builder =
              GraphBuilderPush(b.builder, key, dep_keys,
                               NodeData(action, duration, span_id))]

\* LongestPathGraphBackend::process_top_level_target
LongestPathProcessTopLevelTarget(b, analysis, artifacts) ==
    [b EXCEPT !.top_level_analysis = Append(@, VisibilityEdge(analysis, artifacts))]

\* The `while let Some(i) = queue.pop()` loop of finish: the queue is a stack.
RECURSIVE PropagateFrom(_, _, _, _, _)
PropagateFrom(first_analysis, queue, analysis, graph, keys) ==
    IF queue = <<>> THEN first_analysis
    ELSE LET i == queue[Len(queue)]
             rest == SubSeq(queue, 1, Len(queue) - 1)
         IN  IF first_analysis[i] # 0
             THEN PropagateFrom(first_analysis, rest, analysis, graph, keys)
             ELSE IF keys[i].kind = "Analysis"
             THEN PropagateFrom(first_analysis, rest, analysis, graph, keys)
             ELSE PropagateFrom([first_analysis EXCEPT ![i] = analysis],
                                rest \o graph[i], analysis, graph, keys)

\* The `for artifact in artifacts` loop of finish.
RECURSIVE PropagateArtifacts(_, _, _, _, _)
PropagateArtifacts(first_analysis, artifacts, analysis, graph, keys) ==
    IF artifacts = <<>> THEN first_analysis
    ELSE LET artifact == VertexOf(keys, Head(artifacts))
         IN  IF artifact = 0
             THEN PropagateArtifacts(first_analysis, Tail(artifacts), analysis, graph, keys)
             ELSE PropagateArtifacts(
                      PropagateFrom(first_analysis, <<artifact>>, analysis, graph, keys),
                      Tail(artifacts), analysis, graph, keys)

\* The `for visibility in &self.top_level_analysis` loop of finish.
RECURSIVE PropagateVisibility(_, _, _, _)
PropagateVisibility(first_analysis, top_level_analysis, graph, keys) ==
    IF top_level_analysis = <<>> THEN first_analysis
    ELSE LET visibility == Head(top_level_analysis)
             analysis == VertexOf(keys, visibility.node)
         IN  IF analysis = 0
             THEN PropagateVisibility(first_analysis, Tail(top_level_analysis), graph, keys)
             ELSE PropagateVisibility(
                      PropagateArtifacts(first_analysis, visibility.makes_visible,
                                         analysis, graph, keys),
                      Tail(top_level_analysis), graph, keys)

\* first_analysis when the propagation of finish ends; 0 is OptionalVertexId::none().
FirstAnalysis(b) ==
    LET graph == GraphBuilderFinish(b.builder)
    IN  PropagateVisibility([i \in 1..Len(graph) |-> 0], b.top_level_analysis,
                            graph, b.builder.keys)

\* Duration::as_micros and Duration::from_micros, a unit being one second.
as_micros(d) == d * 1000000
\* A mutation of from_micros: the microseconds are taken for seconds.
from_micros_unscaled(m) == m
from_micros(m) == m \div 1000000

\* A mutation of finish: the add_edges(&first_analysis) call is lost.
AugmentedGraphWithoutFirstAnalysis(b) == GraphBuilderFinish(b.builder)

\* The graph finish hands to compute_critical_path_potentials.
AugmentedGraph(b) == add_edges(GraphBuilderFinish(b.builder), FirstAnalysis(b))

\* LongestPathGraphBackend::finish: the results it may return, each
\* [ok, info]; ok = FALSE is an Err(..).
FinishErr(e) == [ok |-> FALSE, info |-> BuildInfo(<<>>, 0, 0), err |-> e]

LongestPathFinish(b) ==
    IF ~b.builder.ok THEN {FinishErr(b.builder.err)}
    ELSE LET keys == b.builder.keys
             data == b.builder.data
             graph == AugmentedGraph(b)
             durations == [i \in 1..Len(data) |->
                              as_micros(critical_path_duration(data[i].duration))]
         IN  IF IsCyclic(graph) THEN {FinishErr(ComputationFailure)}
             ELSE {[ok |-> TRUE,
                    info |-> BuildInfo(
                        [cp_idx \in 1..Len(r.critical_path) |->
                            PathEntry(keys[r.critical_path[cp_idx]],
                                      data[r.critical_path[cp_idx]],
                                      from_micros(r.critical_path_cost
                                          - r.replacement_durations[cp_idx]))],
                        vertices_count(graph), edges_count(graph))] :
                      r \in CriticalPathPotentials(graph, durations)}

(***************************************************************************)
(* BuildListenerBackend: the calls of the receiver on whichever backend    *)
(* scope() chose.                                                          *)
(***************************************************************************)
process_node(b, key, value, duration, dep_keys, span_id) ==
    IF b.kind = "Default"
    THEN DefaultProcessNode(b, key, value, duration, dep_keys, span_id)
    ELSE LongestPathProcessNode(b, key, value, duration, dep_keys, span_id)

\* DefaultBackend::process_top_level_target does nothing.
process_top_level_target(b, analysis, artifacts) ==
    IF b.kind = "Default" THEN b
    ELSE LongestPathProcessTopLevelTarget(b, analysis, artifacts)

\* finish(): the results it may return.
Finish(b) ==
    IF b.kind = "Default"
    THEN IF DOMAIN b.predecessors = {}
         THEN {[ok |-> TRUE, info |-> DefaultFinish(b, NoKey)]}
         ELSE {[ok |-> TRUE, info |-> DefaultFinish(b, t)] :
                  t \in {u \in Terminals(b.predecessors) :
                            ~UnfoldDiverges(b.predecessors, u)}}
    ELSE LongestPathFinish(b)

\* finish() never returns: the walk of extract_critical_path goes round a cycle.
FinishDiverges(b) ==
    /\ b.kind = "Default"
    /\ \E t \in Terminals(b.predecessors) : UnfoldDiverges(b.predecessors, t)

(***************************************************************************)
(* BuildSignalReceiver: the handlers of run_and_log.  Each returns         *)
(* [err, backend]: err = TRUE is an Err(..) that `?` propagates.           *)
(***************************************************************************)
Handled(b) == [err |-> FALSE, backend |-> b]
HandlerErr(b) == [err |-> TRUE, backend |-> b]

\* dep_keys of process_action: the inputs' keys, then the owner's analysis.
ActionDepKeys(execution) ==
    ArtifactKeys(execution.inputs)
        \o (IF execution.owner # 0 THEN <<Analysis(execution.owner)>> ELSE <<>>)

\* The registered action of an execution stands for itself by its key.
process_action(b, execution) ==
    IF execution.inputs_err THEN HandlerErr(b)
    ELSE Handled(process_node(b, ActionKey(execution.key), execution.key,
                              execution.duration, ActionDepKeys(execution),
                              execution.span_id))

\* std::iter::once(NodeKey::ActionKey(redirection.dest))
RedirectionDepKeys(redirection) == <<ActionKey(redirection.inputs[1])>>

process_action_redirection(b, redirection) ==
    Handled(process_node(b, ActionKey(redirection.key), NoAction, zero,
                         RedirectionDepKeys(redirection), NoSpan))

\* artifacts.chain(sets)
TransitiveSetDepKeys(set) ==
    [i \in 1..Len(set.inputs) |-> ActionKey(set.inputs[i])]
        \o [i \in 1..Len(set.set_deps) |-> TransitiveSetProjection(set.set_deps[i])]

process_transitive_set_computation(b, set) ==
    Handled(process_node(b, TransitiveSetProjection(set.key), NoAction, zero,
                         TransitiveSetDepKeys(set), NoSpan))

\* dep_keys of process_analysis: the analyses of the node's deps.
AnalysisDepKeys(analysis) ==
    [i \in 1..Len(analysis.inputs) |-> Analysis(analysis.inputs[i])]

process_analysis(b, analysis) ==
    Handled(process_node(b, Analysis(analysis.key), NoAction, analysis.duration,
                         AnalysisDepKeys(analysis), analysis.span_id))

receiver_process_top_level_target(b, top_level) ==
    Handled(process_top_level_target(b, Analysis(top_level.key),
                                     ArtifactKeys(top_level.inputs)))

\* A mutation of the match of run_and_log: the Analysis arm breaks.
RunAndLogArmAnalysisBreaks(event) ==
    IF event.type \in {"BuildFinished", "Analysis"} THEN "break" ELSE event.type

\* A mutation of the match of run_and_log: BuildFinished is skipped, no break.
RunAndLogArmNoBreak(event) ==
    IF event.type = "BuildFinished" THEN "skip" ELSE event.type

\* The arm the match of run_and_log takes for an event.
RunAndLogArm(event) ==
    IF event.type = "BuildFinished" THEN "break" ELSE event.type

\* The handler an arm calls.
Dispatch(b, arm, event) ==
    CASE arm = "ActionExecution" -> process_action(b, event)
      [] arm = "TransitiveSetComputation" -> process_transitive_set_computation(b, event)
      [] arm = "ActionRedirection" -> process_action_redirection(b, event)
      [] arm = "Analysis" -> process_analysis(b, event)
      [] arm = "TopLevelTarget" -> receiver_process_top_level_target(b, event)
      [] OTHER -> Handled(b)

(***************************************************************************)
(* The wire report of run_and_log.                                         *)
(***************************************************************************)
\* Duration::try_into a protobuf duration (seconds, nanos).
ProtoDuration(d) == [seconds |-> d, nanos |-> 0]

\* A mutation of the filter_map: the TransitiveSetProjection arm yields an
\* entry instead of None.
RECURSIVE CriticalPath2KeepsProjections(_)
CriticalPath2KeepsProjections(critical_path) ==
    IF critical_path = <<>> THEN <<>>
    ELSE LET e == Head(critical_path)
             rest == CriticalPath2KeepsProjections(Tail(critical_path))
             entry ==
                 [span_id |-> e.data.span_id,
                  duration |-> ProtoDuration(critical_path_duration(e.data.duration)),
                  user_duration |-> ProtoDuration(e.data.duration.user),
                  total_duration |-> ProtoDuration(e.data.duration.total),
                  potential_improvement_duration |->
                      IF e.potential = NoPotential THEN <<>>
                      ELSE <<ProtoDuration(e.potential)>>,
                  entry |-> e.key]
         IN  IF e.key.kind = "ActionKey" /\ e.data.action = NoAction
             THEN rest ELSE <<entry>> \o rest

\* The filter_map over the critical path: a TransitiveSetProjection entry is
\* dropped, and so is an ActionKey entry whose data holds no action.
RECURSIVE CriticalPath2(_)
CriticalPath2(critical_path) ==
    IF critical_path = <<>> THEN <<>>
    ELSE LET e == Head(critical_path)
             rest == CriticalPath2(Tail(critical_path))
             entry ==
                 [span_id |-> e.data.span_id,
                  duration |-> ProtoDuration(critical_path_duration(e.data.duration)),
                  user_duration |-> ProtoDuration(e.data.duration.user),
                  total_duration |-> ProtoDuration(e.data.duration.total),
                  potential_improvement_duration |->
                      IF e.potential = NoPotential THEN <<>>
                      ELSE <<ProtoDuration(e.potential)>>,
                  entry |-> e.key]
         IN  CASE e.key.kind = "ActionKey" ->
                      IF e.data.action = NoAction THEN rest ELSE <<entry>> \o rest
               [] e.key.kind = "Analysis" -> <<entry>> \o rest
               [] OTHER -> rest

BuildGraphExecutionInfo(info) ==
    [critical_path |-> <<>>,
     critical_path2 |-> CriticalPath2(info.critical_path),
     num_nodes |-> info.num_nodes,
     num_edges |-> info.num_edges,
     uses_total_duration |-> FALSE]

(***************************************************************************)
(* State of one scope() call.                                              *)
(***************************************************************************)
VARIABLES
    env,          \* BUCK2_USE_LONGEST_PATH_GRAPH as scope() finds it
    scopePc,      \* where scope() stands
    result,       \* `result`, what the user closure returned ("pending" before)
    scopeRet,     \* what scope() returned ("pending" before)
    senderAlive,  \* scope() still owns `sender`
    clonesAlive,  \* clones of the sender are still owned by producers
    chan,         \* the unbounded channel: indices into `sent`, oldest first
    rxPc,         \* where the receiver task stands
    backend,      \* the backend the receiver owns
    events,       \* the BuildGraphExecutionInfo events emitted so far
    sent,         \* history: every signal() call made so far
    dispatched,   \* history: the indices of `sent` a handler was called for
    finishCalls,  \* history: the number of backend.finish() calls
    stopCause,    \* history: what made the loop of run_and_log stop
    build,        \* the non-terminal signals of the build at hand (a fixed set)
    delivered,    \* history: the signals of `build` handled so far, in order
    outcome,      \* what finish() returned, <<>> before
    prop          \* the first_analysis propagation of finish(), step by step

vars == <<env, scopePc, result, scopeRet, senderAlive, clonesAlive, chan, rxPc,
          backend, events, sent, dispatched, finishCalls, stopCause,
          build, delivered, outcome, prop>>

orderVars == <<build, delivered, outcome, prop>>

scopeVars == <<env, scopePc, result, scopeRet, senderAlive>>
rxVars == <<rxPc, backend, events, dispatched, finishCalls, stopCause>>

\* finish() has not begun to propagate first_analysis.
NoPropagation == [pc |-> "none"]

EnvValues == {"unset", "true", "false", "unparseable"}

\* What the user closure may return.
ClosureResults == {"Ok(r)", "Err(e)"}
IsErr(r) == r = "Err(e)"

NoBackend == [kind |-> "None"]

\* EnvHelper<bool>::get_copied: Ok(Some(v)), Ok(None), or Err for a value
\* that does not parse.
get_copied(e) ==
    CASE e = "true" -> [ok |-> TRUE, value |-> <<TRUE>>]
      [] e = "false" -> [ok |-> TRUE, value |-> <<FALSE>>]
      [] e = "unset" -> [ok |-> TRUE, value |-> <<>>]
      [] OTHER -> [ok |-> FALSE, value |-> <<>>]

\* Option<bool>::unwrap_or_default
unwrap_or_default(o) == IF o = <<>> THEN FALSE ELSE o[1]

\* UnboundedSender::send: Err when the receiver is gone, else the message
\* is queued.
UnboundedSend(queue, open, msg) ==
    [ok |-> open, queue |-> IF open THEN Append(queue, msg) ELSE queue]

\* A mutation of signal(): the error of send reaches the caller.
SignalReturnsSendError(send_ok) == IF send_ok THEN "()" ELSE "SendError"

\* What BuildSignalSender::signal returns to its caller: `let _ignore_error`.
SignalReturns(send_ok) == "()"

\* The receiver still holds the receiving half of the channel.
ReceiverOpen == rxPc \in {"reading", "diverged"}

\* One signal() call by `by`; the history keeps what the caller saw.
DoSignal(sig, by) ==
    LET r == UnboundedSend(chan, ReceiverOpen, Len(sent) + 1)
    IN  /\ chan' = r.queue
        /\ sent' = Append(sent, [sig |-> sig, by |-> by,
                                 closure_done |-> result # "pending",
                                 receiver_open |-> ReceiverOpen,
                                 send_ok |-> r.ok,
                                 ret |-> SignalReturns(r.ok)])

\* A mutation of scope(): `func(sender.dupe()).await?` returns the closure's
\* error at once.
ScopeAfterClosureReturnsEarly(r) == IF IsErr(r) THEN "returned" ELSE "signal"

\* Where scope() goes when the closure has returned r: on to
\* sender.signal(BuildFinished), whatever r is.
ScopeAfterClosure(r) == "signal"

\* A mutation of scope(): the result of the receiver task is dropped.
ScopeReturnIgnoresListener(r, joined) == r

\* A mutation of scope(): the closure's error is replaced on the way out.
ScopeReturnReplacesError(r, joined) ==
    IF joined = "Err" THEN "Err(listener)"
    ELSE IF IsErr(r) THEN "Err(scope)" ELSE r

\* `handle.await??; result`
ScopeReturn(r, joined) == IF joined = "Err" THEN "Err(listener)" ELSE r

(***************************************************************************)
(* scope()                                                                 *)
(***************************************************************************)
InitScope ==
    /\ env \in EnvValues
    /\ scopePc = "entry"
    /\ result = "pending"
    /\ scopeRet = "pending"
    /\ senderAlive = FALSE
    /\ clonesAlive = FALSE
    /\ chan = <<>>
    /\ rxPc = "unspawned"
    /\ backend = NoBackend
    /\ events = <<>>
    /\ sent = <<>>
    /\ dispatched = <<>>
    /\ finishCalls = 0
    /\ stopCause = "none"
    /\ build = {}
    /\ delivered = <<>>
    /\ outcome = <<>>
    /\ prop = NoPropagation

\* The environment read fails: scope() returns the error; nothing was started.
ScopeEnvError ==
    /\ UNCHANGED orderVars
    /\ scopePc = "entry"
    /\ ~get_copied(env).ok
    /\ scopePc' = "returned"
    /\ scopeRet' = "Err(env)"
    /\ UNCHANGED <<env, result, senderAlive, clonesAlive, chan, sent>>
    /\ UNCHANGED rxVars

\* start_listener with the chosen backend, then func(sender.dupe()).
ScopeStart ==
    /\ UNCHANGED orderVars
    /\ scopePc = "entry"
    /\ get_copied(env).ok
    /\ backend' = IF unwrap_or_default(get_copied(env).value)
                  THEN LongestPathGraphBackendNew
                  ELSE DefaultBackendNew
    /\ rxPc' = "reading"
    /\ senderAlive' = TRUE
    /\ clonesAlive' = TRUE
    /\ scopePc' = "awaiting"
    /\ UNCHANGED <<env, result, scopeRet, chan, events, sent, dispatched,
                   finishCalls, stopCause>>

\* The user closure completes with r.
ClosureReturns(r) ==
    /\ UNCHANGED orderVars
    /\ scopePc = "awaiting"
    /\ result' = r
    /\ scopePc' = ScopeAfterClosure(r)
    /\ scopeRet' = IF ScopeAfterClosure(r) = "returned" THEN r ELSE scopeRet
    /\ senderAlive' = (ScopeAfterClosure(r) # "returned")
    /\ UNCHANGED <<env, clonesAlive, chan, sent>>
    /\ UNCHANGED rxVars

\* sender.signal(BuildSignal::BuildFinished)
ScopeSignalsFinished ==
    /\ UNCHANGED orderVars
    /\ scopePc = "signal"
    /\ DoSignal(BuildFinished, "scope")
    /\ scopePc' = "join"
    /\ UNCHANGED <<env, result, scopeRet, senderAlive, clonesAlive>>
    /\ UNCHANGED rxVars

\* handle.await??; result.  The join completes once the task has returned.
ScopeJoins ==
    /\ UNCHANGED orderVars
    /\ scopePc = "join"
    /\ rxPc \in {"Ok", "Err"}
    /\ scopeRet' = ScopeReturn(result, rxPc)
    /\ scopePc' = "returned"
    /\ senderAlive' = FALSE
    /\ UNCHANGED <<env, result, clonesAlive, chan, sent>>
    /\ UNCHANGED rxVars

\* The future of scope() is dropped at one of its two await points: its
\* locals (sender, handle, the closure's future) are dropped, the spawned
\* receiver task runs on detached.
ScopeCancelled ==
    /\ UNCHANGED orderVars
    /\ scopePc \in {"awaiting", "join"}
    /\ scopePc' = "dropped"
    /\ senderAlive' = FALSE
    /\ UNCHANGED <<env, result, scopeRet, clonesAlive, chan, sent>>
    /\ UNCHANGED rxVars

(***************************************************************************)
(* Producers                                                               *)
(***************************************************************************)
ProducerCalls == Cardinality({i \in 1..Len(sent) : sent[i].by = "producer"})

\* A producer calls sender.signal(sig) on its clone.
ProducerSignalsUpTo(sig, max_calls) ==
    /\ UNCHANGED orderVars
    /\ clonesAlive
    /\ ProducerCalls < max_calls
    /\ DoSignal(sig, "producer")
    /\ UNCHANGED scopeVars
    /\ UNCHANGED clonesAlive
    /\ UNCHANGED rxVars

ProducerSignals(sig) == ProducerSignalsUpTo(sig, MaxSignals)

\* The last clone held by the closure and the producers is dropped; the
\* closure's future owns one until it completes or is dropped.
ProducersDropSender ==
    /\ UNCHANGED orderVars
    /\ clonesAlive
    /\ scopePc \notin {"entry", "awaiting"}
    /\ clonesAlive' = FALSE
    /\ UNCHANGED scopeVars
    /\ UNCHANGED <<chan, sent>>
    /\ UNCHANGED rxVars

(***************************************************************************)
(* The receiver task: run_and_log                                          *)
(***************************************************************************)
\* After the loop: backend.finish()?, the wire report, instant_event.
Finalize(cause) ==
    /\ stopCause' = cause
    /\ finishCalls' = finishCalls + 1
    /\ \/ \E r \in Finish(backend) :
              /\ rxPc' = IF r.ok THEN "Ok" ELSE "Err"
              /\ events' = IF r.ok THEN Append(events, BuildGraphExecutionInfo(r.info))
                           ELSE events
              /\ chan' = <<>>
       \/ /\ FinishDiverges(backend)
          /\ rxPc' = "diverged"
          /\ UNCHANGED <<events, chan>>
    /\ UNCHANGED <<backend, dispatched>>

\* self.receiver.next() yields an event; the match handles it.
ReceiverNext ==
    /\ UNCHANGED orderVars
    /\ rxPc = "reading"
    /\ chan # <<>>
    /\ LET id == Head(chan)
           event == sent[id].sig
           arm == RunAndLogArm(event)
       IN  CASE arm = "break" ->
                    /\ Finalize(event.type)
             [] arm = "skip" ->
                    /\ chan' = Tail(chan)
                    /\ UNCHANGED rxVars
             [] OTHER ->
                    LET h == Dispatch(backend, arm, event)
                    IN  IF h.err
                        THEN /\ rxPc' = "Err"
                             /\ stopCause' = "handler error"
                             /\ chan' = <<>>
                             /\ UNCHANGED <<backend, events, dispatched, finishCalls>>
                        ELSE /\ backend' = h.backend
                             /\ dispatched' = Append(dispatched, id)
                             /\ chan' = Tail(chan)
                             /\ UNCHANGED <<rxPc, events, finishCalls, stopCause>>
    /\ UNCHANGED scopeVars
    /\ UNCHANGED <<clonesAlive, sent>>

\* self.receiver.next() yields None: the queue is empty and every sender is
\* dropped.
ReceiverClosed ==
    /\ UNCHANGED orderVars
    /\ rxPc = "reading"
    /\ chan = <<>>
    /\ ~senderAlive
    /\ ~clonesAlive
    /\ Finalize("closed")
    /\ UNCHANGED scopeVars
    /\ UNCHANGED <<clonesAlive, sent>>

(***************************************************************************)
(* The signals the producers of one build send, and the specifications.    *)
(***************************************************************************)
\* The non-terminal signals of a small build: action 1 of target 1, action 2
\* whose inputs cannot be listed, the analysis of target 1, its top-level
\* artifacts, a redirection of action 2 to action 1 and one projection.
BuildSignals ==
    {ActionExecutionSignal(1, <<>>, 1, NodeDuration(d, d + 1), 11, FALSE) :
        d \in 1..MaxDur}
        \cup {ActionExecutionSignal(2, <<Artifact(1), Artifact(0)>>, 0,
                                    NodeDuration(1, 2), 12, TRUE),
              AnalysisSignal(1, <<>>, NodeDuration(1, 1), 21),
              TopLevelTargetSignal(1, <<Artifact(1)>>),
              ActionRedirectionSignal(2, 1),
              TransitiveSetComputationSignal(1, <<1>>, <<>>)}

Init == InitScope

Scope ==
    \/ ScopeEnvError
    \/ ScopeStart
    \/ \E r \in ClosureResults : ClosureReturns(r)
    \/ ScopeSignalsFinished
    \/ ScopeJoins
    \/ ScopeCancelled

Receiver ==
    \/ ReceiverNext
    \/ ReceiverClosed

\* The producers of the repository send the five non-terminal variants.
Next ==
    \/ Scope
    \/ Receiver
    \/ \E sig \in BuildSignals : ProducerSignals(sig)
    \/ ProducersDropSender

Spec == Init /\ [][Next]_vars

\* signal() takes any BuildSignal: a producer may send BuildFinished as well.
NextAnySignal ==
    \/ Scope
    \/ Receiver
    \/ \E sig \in BuildSignals \cup {BuildFinished} : ProducerSignals(sig)
    \/ ProducersDropSender

SpecAnySignal == Init /\ [][NextAnySignal]_vars

(***************************************************************************)
(* Properties of scope(), the channel and the receiver loop.               *)
(***************************************************************************)
Count(seq, x) == Cardinality({i \in 1..Len(seq) : seq[i] = x})

\* scope() has made its sender.signal(BuildFinished) call.
ScopeSentFinished ==
    \E i \in 1..Len(sent) : sent[i].by = "scope" /\ sent[i].sig = BuildFinished

\* The receiver task has returned.
ReceiverReturned == rxPc \in {"Ok", "Err"}

\* The first BuildFinished that entered the queue: the one the receiver
\* consumes first, the channel being first-in first-out.  0 when there is none.
FirstFinished ==
    LET queued == {i \in 1..Len(sent) : sent[i].sig = BuildFinished /\ sent[i].send_ok}
    IN  IF queued = {} THEN 0 ELSE CHOOSE i \in queued : \A j \in queued : i <= j

\* The signal whose handler failed: the first queued one never dispatched.
FirstUndispatched ==
    LET left == {i \in 1..Len(sent) : sent[i].send_ok /\ i \notin Range(dispatched)}
    IN  IF left = {} THEN 0 ELSE CHOOSE i \in left : \A j \in left : i <= j

\* C1: in scope(), whether the closure returned Ok or an error, the
\* BuildFinished signal is sent after the closure has completed and before
\* the receiver task is joined: once scope() waits for the task or has
\* returned from the join, its signal(BuildFinished) call was made, and it was
\* made with the closure's result in hand.
C1_FinishedSentOnEveryOutcome ==
    /\ (result # "pending" /\ scopePc \in {"join", "returned"}) => ScopeSentFinished
    /\ \A i \in 1..Len(sent) :
           sent[i].by = "scope" => sent[i].sig = BuildFinished /\ sent[i].closure_done

\* C1 witness: the closure failed, BuildFinished was sent and scope() returned.
C1_Witness ==
    /\ scopePc = "returned"
    /\ IsErr(result)
    /\ ScopeSentFinished

\* C2: when the closure is cancelled while scope() awaits it, the scope
\* driver has still sent BuildFinished (the dropped future runs no further
\* step, so the signal must have been sent by the time it is dropped).
C2_CancelStillSendsFinished ==
    (scopePc = "dropped" /\ result = "pending") => ScopeSentFinished

C4_StopsAfterFirstFinished ==
    /\ [](/\ finishCalls <= 1
          /\ Len(events) <= 1
          /\ FirstFinished # 0 => \A j \in Range(dispatched) : j < FirstFinished)
    /\ [][ReceiverReturned =>
              UNCHANGED <<rxPc, backend, events, dispatched, finishCalls>>]_vars

\* C4 witness: a second BuildFinished and another signal were queued behind
\* the first; the receiver consumed the first and returned.
C4_Witness ==
    /\ rxPc = "Ok"
    /\ stopCause = "BuildFinished"
    /\ FirstFinished # 0
    /\ \E i, j \in 1..Len(sent) :
           /\ i > FirstFinished /\ j > FirstFinished
           /\ sent[i].send_ok /\ sent[i].sig = BuildFinished
           /\ sent[j].send_ok /\ sent[j].sig # BuildFinished

\* C5: a signal() call made after the receiver has terminated returns
\* normally (every call does), its signal is neither queued nor dispatched,
\* and the call changes neither the backend, the report, the receiver's
\* result nor the result of scope().
C5_SendAfterCloseIsSilent ==
    /\ [](\A i \in 1..Len(sent) :
              /\ sent[i].ret = "()"
              /\ ~sent[i].receiver_open =>
                     /\ ~sent[i].send_ok
                     /\ i \notin Range(chan)
                     /\ i \notin Range(dispatched))
    /\ [][(Len(sent') > Len(sent) /\ ReceiverReturned) =>
              UNCHANGED <<chan, rxPc, backend, events, result, scopeRet>>]_vars

\* C5 witness: a producer signalled after the receiver returned an error.
C5_Witness ==
    /\ rxPc = "Err"
    /\ \E i \in 1..Len(sent) : sent[i].by = "producer" /\ ~sent[i].receiver_open

\* C6 as stated: the receiver loop stops only by consuming BuildFinished or
\* by channel closure.
C6_StopsOnlyOnFinishedOrClose ==
    (rxPc \notin {"unspawned", "reading"}) => stopCause \in {"BuildFinished", "closed"}

\* C6 amended: the receiver loop stops only by consuming BuildFinished, by
\* channel closure, or by process_action failing on action.inputs(); a
\* signal whose handler succeeds never stops it.
C6_StopsOnFinishedCloseOrHandlerError ==
    /\ rxPc \in {"unspawned", "reading"} <=> stopCause = "none"
    /\ stopCause \in {"none", "BuildFinished", "closed", "handler error"}
    /\ stopCause = "handler error" =>
           /\ FirstUndispatched # 0
           /\ sent[FirstUndispatched].sig.type = "ActionExecution"
           /\ sent[FirstUndispatched].sig.inputs_err

\* C6 witness: after a dispatched signal, a failing handler stopped the loop.
C6_Witness ==
    /\ rxPc = "Err"
    /\ stopCause = "handler error"
    /\ Len(dispatched) >= 1

C8_ScopeReturnsClosureResult ==
    (scopePc = "returned" /\ rxPc = "Ok") => scopeRet = result

\* C8 witness: the closure failed, the receiver returned Ok, and scope()
\* returned the closure's error.
C8_Witness ==
    /\ scopePc = "returned"
    /\ rxPc = "Ok"
    /\ IsErr(result)
    /\ scopeRet = result

(***************************************************************************)
(* One build delivered in every order: the receiver's handlers and         *)
(* finish() applied to a fixed set of signals with distinct subjects.      *)
(***************************************************************************)
\* Largest number of non-terminal signals of a build.
MaxBuild == 5

\* Nothing, or one of the alternatives of a subject.
AtMostOne(S) == {{}} \cup {{x} : x \in S}

\* The signals a build may hold for each subject: the analyses of targets 1
\* and 2 (2 depends on 1), action 1 (owned by target 1 or by no target),
\* action 2 (an execution that reads action 1, or a redirection to action
\* 1), projection 1 over action 1, and the top-level signals of both targets,
\* which both reveal action 1.
Analysis1Signals == {AnalysisSignal(1, <<>>, NodeDuration(d, d + 1), 21) : d \in 1..MaxDur}
Analysis2Signals == {AnalysisSignal(2, <<1>>, NodeDuration(1, 1), 22)}
Action1Signals ==
    {ActionExecutionSignal(1, <<>>, 0, NodeDuration(d, d + 1), 11, FALSE) : d \in 1..MaxDur}
        \cup {ActionExecutionSignal(1, <<>>, 1, NodeDuration(1, 2), 11, FALSE)}
Action2Signals ==
    {ActionExecutionSignal(2, <<Artifact(1)>>, 1, NodeDuration(1, 2), 12, FALSE),
     ActionExecutionSignal(2, <<Artifact(1), ProjectionGroup(1), Artifact(1), Artifact(0)>>,
                           0, NodeDuration(1, 1), 12, FALSE),
     ActionRedirectionSignal(2, 1)}
Projection1Signals == {TransitiveSetComputationSignal(1, <<1>>, <<>>)}
TopLevel1Signals == {TopLevelTargetSignal(1, <<Artifact(1)>>)}
TopLevel2Signals == {TopLevelTargetSignal(2, <<Artifact(1), ProjectionGroup(1)>>)}

Builds ==
    {b \in {n1 \cup n2 \cup a1 \cup a2 \cup p1 \cup t1 \cup t2 :
                n1 \in AtMostOne(Analysis1Signals), n2 \in AtMostOne(Analysis2Signals),
                a1 \in AtMostOne(Action1Signals), a2 \in AtMostOne(Action2Signals),
                p1 \in AtMostOne(Projection1Signals),
                t1 \in AtMostOne(TopLevel1Signals), t2 \in AtMostOne(TopLevel2Signals)} :
        Cardinality(b) <= MaxBuild}

\* The state in which scope() awaits the closure, and the receiver has
\* handled whatever was sent so far; the build is one of Builds.
InitOrder ==
    /\ env \in {"unset", "true"}
    /\ scopePc = "awaiting"
    /\ result = "pending"
    /\ scopeRet = "pending"
    /\ senderAlive = TRUE
    /\ clonesAlive = TRUE
    /\ chan = <<>>
    /\ rxPc = "reading"
    /\ backend = IF unwrap_or_default(get_copied(env).value)
                 THEN LongestPathGraphBackendNew
                 ELSE DefaultBackendNew
    /\ events = <<>>
    /\ sent = <<>>
    /\ dispatched = <<>>
    /\ finishCalls = 0
    /\ stopCause = "none"
    /\ build \in Builds
    /\ delivered = <<>>
    /\ outcome = <<>>
    /\ prop = NoPropagation

concurrencyVars ==
    <<env, scopePc, result, scopeRet, senderAlive, clonesAlive, chan, rxPc, events,
      sent, dispatched, finishCalls, stopCause>>

\* A producer sends a signal of the build not sent before and the receiver
\* handles it.
OrderDeliver(sig) ==
    /\ outcome = <<>>
    /\ sig \in build
    /\ sig \notin Range(delivered)
    /\ backend' = Dispatch(backend, RunAndLogArm(sig), sig).backend
    /\ delivered' = Append(delivered, sig)
    /\ UNCHANGED <<build, outcome, prop>>
    /\ UNCHANGED concurrencyVars

\* Every signal of the build was handled: BuildFinished, finish()? and the
\* wire report handed to instant_event.
OrderFinish ==
    /\ outcome = <<>>
    /\ Range(delivered) = build
    /\ \E r \in Finish(backend) :
           outcome' = <<[ok |-> r.ok,
                         info |-> r.info,
                         report |-> IF r.ok THEN <<BuildGraphExecutionInfo(r.info)>>
                                    ELSE <<>>]>>
    /\ UNCHANGED <<build, delivered, backend, prop>>
    /\ UNCHANGED concurrencyVars

NextOrder ==
    \/ \E sig \in build : OrderDeliver(sig)
    \/ OrderFinish

SpecOrder == InitOrder /\ [][NextOrder]_vars

(***************************************************************************)
(* Properties of the critical path over delivery orders.                   *)
(***************************************************************************)
\* The signal records a vertex (every variant but TopLevelTarget does).
IsNode(sig) == sig.type \notin {"TopLevelTarget", "BuildFinished"}

\* The key process_node is called with for a signal.
SubjectKey(sig) ==
    CASE sig.type = "Analysis" -> Analysis(sig.key)
      [] sig.type = "TransitiveSetComputation" -> TransitiveSetProjection(sig.key)
      [] OTHER -> ActionKey(sig.key)

\* The deps process_node is called with for a signal.
DepKeysOf(sig) ==
    CASE sig.type = "ActionExecution" -> ActionDepKeys(sig)
      [] sig.type = "ActionRedirection" -> RedirectionDepKeys(sig)
      [] sig.type = "TransitiveSetComputation" -> TransitiveSetDepKeys(sig)
      [] sig.type = "Analysis" -> AnalysisDepKeys(sig)
      [] OTHER -> <<>>

\* Every node is delivered after all of its deps that are delivered at all.
DepsFirst(seq) ==
    \A i, j \in 1..Len(seq) :
        (i < j /\ IsNode(seq[i]) /\ IsNode(seq[j]))
            => SubjectKey(seq[j]) \notin Range(DepKeysOf(seq[i]))

\* The backend after the receiver has handled the signals of seq in order.
RECURSIVE RunSignals(_, _)
RunSignals(b, seq) ==
    IF seq = <<>> THEN b
    ELSE RunSignals(Dispatch(b, RunAndLogArm(Head(seq)), Head(seq)).backend, Tail(seq))

NewBackend(kind) ==
    IF kind = "Default" THEN DefaultBackendNew ELSE LongestPathGraphBackendNew

\* The cost of a critical path: the sum of its entries' durations.
PathCost(critical_path) ==
    SumSeq([i \in 1..Len(critical_path) |->
               critical_path_duration(critical_path[i].data.duration)])

Summary(r) ==
    [ok |-> r.ok, cost |-> PathCost(r.info.critical_path), num_nodes |-> r.info.num_nodes]

RECURSIVE SetToSeq(_)
SetToSeq(S) ==
    IF S = {} THEN <<>>
    ELSE LET x == CHOOSE x \in S : TRUE IN <<x>> \o SetToSeq(S \ {x})

\* The nodes of S a signal depends on.
DepsIn(S, sig) ==
    {d \in S : IsNode(d) /\ SubjectKey(d) \in Range(DepKeysOf(sig))}

\* The length of the longest chain of deps below a node of S.
RECURSIVE Depth(_, _, _)
Depth(S, sig, fuel) ==
    IF fuel = 0 \/ DepsIn(S, sig) = {} THEN 0
    ELSE LET below == {Depth(S, d, fuel - 1) : d \in DepsIn(S, sig)}
         IN  1 + CHOOSE m \in below : \A x \in below : x <= m

RECURSIVE ByDepth(_, _)
ByDepth(S, d) ==
    IF d > Cardinality(S) THEN <<>>
    ELSE SetToSeq({x \in S : IsNode(x) /\ Depth(S, x, Cardinality(S)) = d})
             \o ByDepth(S, d + 1)

\* One delivery order of the signals of seq, the same for every order of
\* the same signals that has the same order of TopLevelTarget signals: the
\* nodes deps first, then the TopLevelTarget signals as seq has them.
Reference(seq) ==
    ByDepth(Range(seq), 0) \o SelectSeq(seq, LAMBDA x : ~IsNode(x))

\* One delivery order of the signals of S, whatever order they came in.
FixedOrder(S) == ByDepth(S, 0) \o SetToSeq({x \in S : ~IsNode(x)})

\* The cost of the longest path ending at a node of S in the graph of all
\* declared (subject, dep) edges, each vertex weighted by its user duration.
RECURSIVE LongestTo(_, _, _)
LongestTo(S, sig, fuel) ==
    IF fuel = 0 \/ DepsIn(S, sig) = {} THEN sig.duration.user
    ELSE LET below == {LongestTo(S, d, fuel - 1) : d \in DepsIn(S, sig)}
         IN  sig.duration.user + CHOOSE m \in below : \A x \in below : x <= m

DagLongest(S) ==
    LET nodes == {x \in S : IsNode(x)}
        costs == {LongestTo(nodes, x, Cardinality(nodes)) : x \in nodes}
    IN  IF nodes = {} THEN 0 ELSE CHOOSE m \in costs : \A x \in costs : x <= m

Finished == outcome # <<>>

\* C9 as stated: every permutation of the delivery of a fixed set of
\* signals with distinct subjects yields the same critical-path cost and
\* the same num_nodes (the result equals that of one fixed order).
C9_EveryOrderSameCost ==
    Finished =>
        Summary(outcome[1])
            \in {Summary(r) : r \in Finish(RunSignals(NewBackend(backend.kind),
                                                      FixedOrder(build)))}

\* C9 amended: num_nodes is the number of nodes delivered, whatever the
\* delivery order; the cost is the same for every delivery order in which
\* each node is processed after all of its deps and the TopLevelTarget
\* signals keep their relative order (the result equals that of the one
\* such order that Reference picks).
C9_DepsFirstOrdersSameCost ==
    Finished =>
        LET here == Summary(outcome[1])
            same == {Summary(r) : r \in Finish(RunSignals(NewBackend(backend.kind),
                                                          Reference(delivered)))}
        IN  /\ here.num_nodes = Cardinality({x \in build : IsNode(x)})
            /\ DepsFirst(delivered) => (DepsFirst(Reference(delivered)) /\ same = {here})

\* C9 witness: a build of four or more signals, among them both
\* TopLevelTarget signals, was delivered deps first in an order other than
\* the reference order, and finish() returned a path of cost 3 or more.
C9_Witness ==
    /\ Finished
    /\ outcome[1].ok
    /\ Len(delivered) >= 4
    /\ Cardinality({x \in build : ~IsNode(x)}) = 2
    /\ DepsFirst(delivered)
    /\ delivered # Reference(delivered)
    /\ PathCost(outcome[1].info.critical_path) >= 3

\* The terminal of the path finish() returned, and the path as
\* extract_critical_path computed it.
PathTerminal == outcome[1].info.critical_path[Len(outcome[1].info.critical_path)].key
ExtractedPath == extract_critical_path(backend.predecessors, PathTerminal)

DefaultFinished ==
    Finished /\ backend.kind = "Default" /\ outcome[1].info.critical_path # <<>>

C10Equalities ==
    /\ SumSeq([i \in 1..Len(ExtractedPath) |-> ExtractedPath[i].duration])
           = backend.predecessors[PathTerminal].duration
    /\ PathCost(outcome[1].info.critical_path)
           = backend.predecessors[PathTerminal].duration
    /\ backend.predecessors[PathTerminal].duration = DagLongest(build)

\* C10 as stated: for every sequence of process_node calls on the default
\* backend the per-entry durations of the critical path sum to the
\* cumulative duration of the terminal, which is the largest longest-path
\* cost over the recorded vertices in the graph of the declared edges.
C10_PathSumIsLongestPath == DefaultFinished => C10Equalities

\* C10 amended: the same, for every sequence of process_node calls with
\* distinct subject keys in which each node is processed after all of its
\* deps that are processed at all.
C10_DepsFirstPathSumIsLongestPath ==
    (DefaultFinished /\ DepsFirst(delivered)) => C10Equalities

\* C10 witness: the default backend returned a path of three entries for a
\* build delivered deps first.
C10_Witness ==
    /\ DefaultFinished
    /\ DepsFirst(delivered)
    /\ Len(outcome[1].info.critical_path) >= 3
    /\ Len(delivered) >= 4

(***************************************************************************)
(* Properties of the path finish() returns.                                *)
(***************************************************************************)
ReturnedPath == outcome[1].info.critical_path

\* The signal of the build that recorded a vertex.
SignalOf(key) == CHOOSE x \in build : IsNode(x) /\ SubjectKey(x) = key

\* The deps declared for a vertex in its process_node call.
DeclaredDeps(key) == Range(DepKeysOf(SignalOf(key)))

\* The recorded keys reachable from a set of keys by declared deps.
RECURSIVE ReachKeys(_, _)
ReachKeys(keys, n) ==
    LET recorded == {k \in keys : \E x \in build : IsNode(x) /\ SubjectKey(x) = k}
    IN  IF n = 0 THEN recorded
        ELSE ReachKeys(recorded \cup UNION {DeclaredDeps(k) : k \in recorded}, n - 1)

\* Some TopLevelTarget signal of the analysis reveals the vertex: the
\* vertex is no analysis and is reachable from the signal's artifacts.
GatedBy(key, analysis) ==
    /\ key.kind # "Analysis"
    /\ \E tl \in build :
           /\ ~IsNode(tl)
           /\ Analysis(tl.key) = analysis
           /\ key \in ReachKeys(Range(ArtifactKeys(tl.inputs)), Cardinality(build))

\* C11: the critical path finish() returns repeats no key, and the entry
\* before each entry is one of the deps declared for that entry (default
\* backend) or a declared dep or the analysis that gates the entry
\* (longest-path backend); on the default backend the path starts at a
\* node without predecessor and ends at a node of maximum cumulative
\* duration.
C11_PathIsSimpleAlongDeps ==
    (Finished /\ outcome[1].ok) =>
        /\ \A i, j \in 1..Len(ReturnedPath) :
               i # j => ReturnedPath[i].key # ReturnedPath[j].key
        /\ \A i \in 2..Len(ReturnedPath) :
               \/ ReturnedPath[i - 1].key \in DeclaredDeps(ReturnedPath[i].key)
               \/ /\ backend.kind = "LongestPath"
                  /\ GatedBy(ReturnedPath[i].key, ReturnedPath[i - 1].key)
        /\ (backend.kind = "Default" /\ ReturnedPath # <<>>) =>
               /\ backend.predecessors[ReturnedPath[1].key].prev = NoKey
               /\ ReturnedPath[Len(ReturnedPath)].key \in Terminals(backend.predecessors)

\* C11 witness: a path of three entries or more was returned, and one of
\* its entries follows a declared dep.
C11_Witness ==
    /\ Finished
    /\ outcome[1].ok
    /\ Len(ReturnedPath) >= 3
    /\ \E i \in 2..Len(ReturnedPath) :
           ReturnedPath[i - 1].key \in DeclaredDeps(ReturnedPath[i].key)

\* C12: in the longest-path backend the potential improvement of every
\* entry of the returned critical path is at least 0 and at most the
\* entry's own user duration.
C12_PotentialWithinOwnDuration ==
    (Finished /\ backend.kind = "LongestPath" /\ outcome[1].ok) =>
        \A i \in 1..Len(ReturnedPath) :
            /\ ReturnedPath[i].potential # NoPotential
            /\ 0 <= ReturnedPath[i].potential
            /\ ReturnedPath[i].potential <= ReturnedPath[i].data.duration.user

\* C12 witness: the longest-path backend returned a path of two entries or
\* more with an entry whose potential improvement is positive and less
\* than its duration, and an entry whose potential is its whole duration.
C12_Witness ==
    /\ Finished
    /\ backend.kind = "LongestPath"
    /\ outcome[1].ok
    /\ Len(ReturnedPath) >= 2
    /\ \E i \in 1..Len(ReturnedPath) :
           /\ 0 < ReturnedPath[i].potential
           /\ ReturnedPath[i].potential < ReturnedPath[i].data.duration.user
    /\ \E i \in 1..Len(ReturnedPath) :
           /\ 0 < ReturnedPath[i].potential
           /\ ReturnedPath[i].potential = ReturnedPath[i].data.duration.user

(***************************************************************************)
(* Properties of the counts of the report.                                 *)
(***************************************************************************)
\* The signals the receiver has handled, in order.
DispatchedSignals == [i \in 1..Len(dispatched) |-> sent[dispatched[i]].sig]

\* The distinct (subject, dep) pairs passed to process_node so far.
DeclaredPairs ==
    UNION {{<<SubjectKey(x), d>> : d \in Range(DepKeysOf(x))} :
              x \in {y \in Range(DispatchedSignals) : IsNode(y)}}

\* C13: the num_edges of the report equals the number of distinct
\* (subject, dep) pairs passed to process_node, for either backend and
\* whatever the signals were (repeated deps, repeated subject keys, deps
\* never seen, TopLevelTarget signals).
C13_EdgesAreDistinctPairs ==
    events # <<>> => events[1].num_edges = Cardinality(DeclaredPairs)

(***************************************************************************)
(* Properties of the wire report.                                          *)
(***************************************************************************)
WireReport == outcome[1].report[1]

KeysOf(entries) == [i \in 1..Len(entries) |-> entries[i].key]

WireKeys == [i \in 1..Len(WireReport.critical_path2) |-> WireReport.critical_path2[i].entry]

\* C14: no entry of critical_path2 is for a TransitiveSetProjection vertex,
\* and the entries are entries of the backend's critical path in the
\* backend's order.
C14_NoProjectionInReport ==
    (Finished /\ outcome[1].ok) =>
        /\ \A i \in 1..Len(WireKeys) : WireKeys[i].kind # "TransitiveSetProjection"
        /\ WireKeys = SelectSeq(KeysOf(ReturnedPath), LAMBDA k : k \in Range(WireKeys))

\* C14 witness: a TransitiveSetProjection vertex lies inside the backend's
\* critical path, with reported entries before and after it.
C14_Witness ==
    /\ Finished
    /\ outcome[1].ok
    /\ Len(WireKeys) >= 2
    /\ \E i \in 2..(Len(ReturnedPath) - 1) :
           /\ ReturnedPath[i].key.kind = "TransitiveSetProjection"
           /\ ReturnedPath[i - 1].key \in Range(WireKeys)
           /\ ReturnedPath[i + 1].key \in Range(WireKeys)

\* C15: every vertex of the backend's critical path whose key is not a
\* TransitiveSetProjection (every ActionKey vertex, with or without an
\* action, and every Analysis vertex) has exactly one entry in
\* critical_path2.
C15_EveryOtherVertexReported ==
    (Finished /\ outcome[1].ok) =>
        \A i \in 1..Len(ReturnedPath) :
            ReturnedPath[i].key.kind # "TransitiveSetProjection"
                => Cardinality({j \in 1..Len(WireKeys) :
                                   WireKeys[j] = ReturnedPath[i].key}) = 1

(***************************************************************************)
(* Properties of the smallest builds.                                      *)
(***************************************************************************)
\* The build is one node with no deps and a positive user duration.
SingleNodeBuild ==
    /\ Cardinality(build) = 1
    /\ \A x \in build : IsNode(x) /\ DepKeysOf(x) = <<>> /\ x.duration.user > 0

TheNode == CHOOSE x \in build : TRUE

\* finish() returned the one node with its duration.
OneEntryPath ==
    /\ outcome[1].ok
    /\ Len(ReturnedPath) = 1
    /\ ReturnedPath[1].key = SubjectKey(TheNode)
    /\ ReturnedPath[1].data.duration = TheNode.duration
    /\ backend.kind = "Default" => ExtractedPath[1].duration = TheNode.duration.user

\* The default backend reports None for every entry of every path.
DefaultPotentialsAbsent ==
    (Finished /\ backend.kind = "Default") =>
        /\ \A i \in 1..Len(ReturnedPath) : ReturnedPath[i].potential = NoPotential
        /\ \A i \in 1..Len(WireReport.critical_path2) :
               WireReport.critical_path2[i].potential_improvement_duration = <<>>

\* C16 as stated: a build of one node (no deps, user duration d > 0) has a
\* one-entry critical path of duration d whose potential improvement is 0
\* under the longest-path backend and None under the default backend, and
\* the default backend reports None for every entry of every path.
C16_SingleNodePotentialZero ==
    /\ (Finished /\ SingleNodeBuild) =>
           /\ OneEntryPath
           /\ backend.kind = "LongestPath" => ReturnedPath[1].potential = 0
    /\ DefaultPotentialsAbsent

\* C16 amended: the same, the potential improvement under the longest-path
\* backend being d, the node's whole duration.
C16_SingleNodePotentialIsDuration ==
    /\ (Finished /\ SingleNodeBuild) =>
           /\ OneEntryPath
           /\ backend.kind = "LongestPath"
                  => ReturnedPath[1].potential = TheNode.duration.user
    /\ DefaultPotentialsAbsent

\* C16 witness: the longest-path backend finished a build of one node of
\* duration 2.
C16_Witness ==
    /\ Finished
    /\ SingleNodeBuild
    /\ backend.kind = "LongestPath"
    /\ TheNode.duration.user = 2
    /\ Len(ReturnedPath) = 1

\* The receiver has left its loop on a BuildFinished that was the first
\* signal it consumed.
FinishedOnEmptyStream ==
    /\ rxPc \in {"Ok", "Err", "diverged"}
    /\ stopCause = "BuildFinished"
    /\ dispatched = <<>>

\* C17: when BuildFinished is the first signal consumed the receiver emits
\* one report with an empty critical path, num_nodes = 0 and num_edges = 0,
\* and returns Ok, so that scope() returns the closure's result.
C17_EmptyStreamReport ==
    FinishedOnEmptyStream =>
        /\ rxPc = "Ok"
        /\ Len(events) = 1
        /\ events[1].critical_path = <<>>
        /\ events[1].critical_path2 = <<>>
        /\ events[1].num_nodes = 0
        /\ events[1].num_edges = 0
        /\ scopePc = "returned" => scopeRet = result

\* C17 witness: nothing but the BuildFinished of scope() was sent, the
\* report was emitted and scope() has returned the closure's Ok.
C17_Witness ==
    /\ FinishedOnEmptyStream
    /\ Len(sent) = 1
    /\ Len(events) = 1
    /\ scopePc = "returned"
    /\ scopeRet = "Ok(r)"

(***************************************************************************)
(* Properties of the backend selection.                                    *)
(***************************************************************************)
\* C18: a truthy BUCK2_USE_LONGEST_PATH_GRAPH selects the longest-path
\* backend; a falsy, absent or unparseable value selects the default
\* backend; the setting never makes scope() fail, scope() goes on to start
\* the listener and run the closure; and the backend chosen stays the
\* backend of the build.
C18_SettingSelectsBackendOnly ==
    /\ scopeRet # "Err(env)"
    /\ scopePc # "entry" => rxPc # "unspawned"
    /\ rxPc # "unspawned" =>
           backend.kind = IF env = "true" THEN "LongestPath" ELSE "Default"

(***************************************************************************)
(* Properties of the visibility edges of the longest-path backend.         *)
(***************************************************************************)
\* The nodes of the build are an analysis T and an action X, neither with
\* declared deps, and a TopLevelTarget signal of T reveals X.
RevealedPairs ==
    {p \in build \X build :
        /\ p[1].type = "Analysis" /\ DepKeysOf(p[1]) = <<>>
        /\ p[2].type = "ActionExecution" /\ DepKeysOf(p[2]) = <<>>
        /\ {y \in build : IsNode(y)} = {p[1], p[2]}
        /\ \E tl \in build :
               /\ tl.type = "TopLevelTarget"
               /\ tl.key = p[1].key
               /\ ActionKey(p[2].key) \in Range(ArtifactKeys(tl.inputs))}

\* The cost of the longest path to every vertex of the graph finish()
\* computes on, in user durations.
VertexCosts ==
    LET graph == AugmentedGraph(backend)
    IN  LongestCosts(graph,
                     [i \in 1..Len(graph) |-> backend.builder.data[i].duration.user],
                     Len(graph))

\* C19: under the longest-path backend, when a TopLevelTarget signal of
\* analysis T reveals X and T and X are the recorded vertices, without
\* declared deps, the critical path is [T, X] and costs duration(T) +
\* duration(X); and every revealed vertex that is no analysis has a gating
\* analysis among the analyses that reveal it, the cost of its longest path
\* is at least its own duration plus the cost of the longest path to that
\* analysis, and the critical path costs no less.
C19_GatingAnalysisOnPath ==
    (Finished /\ backend.kind = "LongestPath" /\ outcome[1].ok) =>
        /\ \A p \in RevealedPairs :
               /\ KeysOf(ReturnedPath) = <<SubjectKey(p[1]), SubjectKey(p[2])>>
               /\ PathCost(ReturnedPath) = p[1].duration.user + p[2].duration.user
        /\ \A v \in 1..Len(backend.builder.keys) :
               LET key == backend.builder.keys[v]
                   gate == FirstAnalysis(backend)[v]
                   revealing == {a \in Range(backend.builder.keys) : GatedBy(key, a)}
               IN  /\ (gate # 0) <=> (revealing # {})
                   /\ gate # 0 =>
                          /\ backend.builder.keys[gate] \in revealing
                          /\ VertexCosts[v]
                                 >= backend.builder.data[v].duration.user
                                        + VertexCosts[gate]
                          /\ VertexCosts[gate] >= backend.builder.data[gate].duration.user
                          /\ PathCost(ReturnedPath) >= VertexCosts[v]

\* C19 witness: analysis 1 of duration 2 and action 1, no declared deps, a
\* TopLevelTarget signal of analysis 1 revealing action 1; the path is
\* [analysis 1, action 1].
C19_Witness ==
    /\ Finished
    /\ backend.kind = "LongestPath"
    /\ outcome[1].ok
    /\ RevealedPairs # {}
    /\ KeysOf(ReturnedPath) = <<Analysis(1), ActionKey(1)>>
    /\ ReturnedPath[1].data.duration.user = 2
    /\ PathCost(ReturnedPath) >= 3

(***************************************************************************)
(* Properties of the tie-break of DefaultBackend::process_node.            *)
(***************************************************************************)
\* The signal the receiver handles in this step.
Incoming == delivered'[Len(delivered')]

\* The process_node call of this step is on the default backend.
DefaultProcessNodeStep ==
    /\ backend.kind = "Default"
    /\ Len(delivered') = Len(delivered) + 1
    /\ IsNode(Incoming)

\* The deps of the call found in the predecessor map, in the order of the
\* deps sequence (a repeated dep at its first occurrence).
IncomingPresent == PresentDeps(backend.predecessors, Unique(DepKeysOf(Incoming)))

\* The positions of the present deps of maximum cumulative duration.
TiedPositions ==
    {i \in 1..Len(IncomingPresent) :
        \A j \in 1..Len(IncomingPresent) :
            IncomingPresent[j].duration <= IncomingPresent[i].duration}

\* The prev the call stores for its subject.
StoredPrev == backend'.predecessors[SubjectKey(Incoming)].prev

\* C20 as stated: when several distinct present deps share the maximum
\* cumulative duration, prev is the one that occurs first in the deps
\* sequence.
C20_TieGoesToFirstDep ==
    [][(DefaultProcessNodeStep /\ Cardinality(TiedPositions) >= 2) =>
           StoredPrev = IncomingPresent[CHOOSE i \in TiedPositions :
                                            \A j \in TiedPositions : i <= j].key]_vars

\* C20 amended: when several distinct present deps share the maximum
\* cumulative duration, prev is the one that occurs last in the deps
\* sequence.
C20_TieGoesToLastDep ==
    [][(DefaultProcessNodeStep /\ Cardinality(TiedPositions) >= 2) =>
           StoredPrev = IncomingPresent[CHOOSE i \in TiedPositions :
                                            \A j \in TiedPositions : j <= i].key]_vars

\* C20 witness: action 2 was processed on the default backend with the deps
\* action 1 and projection 1 present and of equal cumulative duration.
C20_Witness ==
    /\ backend.kind = "Default"
    /\ {ActionKey(1), ActionKey(2), TransitiveSetProjection(1)}
           \subseteq DOMAIN backend.predecessors
    /\ backend.predecessors[ActionKey(1)].duration
           = backend.predecessors[TransitiveSetProjection(1)].duration
    /\ backend.predecessors[ActionKey(2)].prev
           \in {ActionKey(1), TransitiveSetProjection(1)}
    /\ backend.predecessors[ActionKey(2)].duration
           > backend.predecessors[ActionKey(1)].duration
    /\ \E x \in build :
           /\ SubjectKey(x) = ActionKey(2)
           /\ {ActionKey(1), TransitiveSetProjection(1)} \subseteq Range(DepKeysOf(x))

(***************************************************************************)
(* extract_critical_path on its own: every predecessor map over a few      *)
(* keys, as the tests of the module build them with cp_insert.             *)
(***************************************************************************)
\* Largest cumulative duration of a node of a predecessor map.
MaxCum == 3

MapKeys == {ActionKey(1), ActionKey(2), TransitiveSetProjection(1), Analysis(1)}

\* tests::cp_insert: the value names the key.
CpValue(key) == NodeData(key.id, zero, NoSpan)

\* The map cp_insert builds from a duration and a prev for each key of D.
CpMap(D, m) == [k \in D |-> CriticalPathNode(m[k].duration, CpValue(k), m[k].prev)]

\* The extract_critical_path call starts on a map whose prev pointers are
\* keys of the map.
InitExtract ==
    /\ env = "unset"
    /\ scopePc = "awaiting"
    /\ result = "pending"
    /\ scopeRet = "pending"
    /\ senderAlive = TRUE
    /\ clonesAlive = TRUE
    /\ chan = <<>>
    /\ rxPc = "reading"
    /\ \E D \in SUBSET MapKeys :
           \E m \in [D -> [duration : 0..MaxCum, prev : D \cup {NoKey}]] :
               backend = [kind |-> "Default", predecessors |-> CpMap(D, m),
                          num_nodes |-> Cardinality(D), num_edges |-> 0]
    /\ events = <<>>
    /\ sent = <<>>
    /\ dispatched = <<>>
    /\ finishCalls = 0
    /\ stopCause = "none"
    /\ build = {}
    /\ delivered = <<>>
    /\ outcome = <<>>
    /\ prop = NoPropagation

\* extract_critical_path(&predecessors) returns; the terminal is any node of
\* maximum cumulative duration.
ExtractReturns ==
    /\ outcome = <<>>
    /\ rxPc = "reading"
    /\ \/ /\ DOMAIN backend.predecessors = {}
          /\ outcome' = <<[terminal |-> NoKey,
                           path |-> extract_critical_path(backend.predecessors, NoKey)]>>
       \/ \E t \in Terminals(backend.predecessors) :
              /\ ~UnfoldDiverges(backend.predecessors, t)
              /\ outcome' = <<[terminal |-> t,
                               path |-> extract_critical_path(backend.predecessors, t)]>>
    /\ UNCHANGED <<build, delivered, backend, prop>>
    /\ UNCHANGED concurrencyVars

\* extract_critical_path never returns: the unfold goes round a cycle of prev
\* pointers.
ExtractDiverges ==
    /\ outcome = <<>>
    /\ rxPc = "reading"
    /\ \E t \in Terminals(backend.predecessors) : UnfoldDiverges(backend.predecessors, t)
    /\ rxPc' = "diverged"
    /\ UNCHANGED <<build, delivered, backend, outcome, prop>>
    /\ UNCHANGED <<env, scopePc, result, scopeRet, senderAlive, clonesAlive, chan,
                   events, sent, dispatched, finishCalls, stopCause>>

NextExtract ==
    \/ ExtractReturns
    \/ ExtractDiverges

SpecExtract == InitExtract /\ [][NextExtract]_vars

\* The keys on the prev chain of a key, root first.
RECURSIVE PrevChain(_, _, _)
PrevChain(m, key, fuel) ==
    IF key = NoKey \/ fuel = 0 THEN <<>>
    ELSE Append(PrevChain(m, m[key].prev, fuel - 1), key)

\* No walk along prev pointers comes back to where it started.
PrevAcyclic(m) ==
    \A k \in DOMAIN m : Len(PrevChain(m, k, Cardinality(DOMAIN m) + 1)) <= Cardinality(DOMAIN m)

\* Cumulative durations do not decrease from a node's prev to the node.
CumulativeMonotone(m) ==
    \A k \in DOMAIN m : m[k].prev # NoKey => m[m[k].prev].duration <= m[k].duration

\* C21: on a predecessor map with acyclic prev pointers and cumulative
\* durations that do not decrease along prev chains, extract_critical_path
\* returns the prev chain of a node of maximum cumulative duration, root
\* first and starting at a node with no prev; the root's duration is its
\* cumulative duration, every other entry's duration is its cumulative
\* duration minus that of the entry before it, each entry carries its
\* node's value, and no node off the chain appears.
C21_ExtractReturnsPrevChain ==
    LET m == backend.predecessors
        path == outcome[1].path
        t == outcome[1].terminal
    IN  (outcome # <<>> /\ PrevAcyclic(m) /\ CumulativeMonotone(m)) =>
            IF DOMAIN m = {} THEN path = <<>>
            ELSE /\ \A k \in DOMAIN m : m[k].duration <= m[t].duration
                 /\ KeysOf(path) = PrevChain(m, t, Cardinality(DOMAIN m))
                 /\ path[Len(path)].key = t
                 /\ m[path[1].key].prev = NoKey
                 /\ path[1].duration = m[path[1].key].duration
                 /\ \A i \in 2..Len(path) :
                        /\ m[path[i].key].prev = path[i - 1].key
                        /\ path[i].duration
                               = m[path[i].key].duration - m[path[i - 1].key].duration
                 /\ \A i \in 1..Len(path) : path[i].value = m[path[i].key].value

\* C21 witness: the map of tests::long_path scaled down, a chain of three
\* nodes and a losing branch off its root; the chain was returned.
C21_Witness ==
    /\ outcome # <<>>
    /\ DOMAIN backend.predecessors = MapKeys
    /\ PrevAcyclic(backend.predecessors)
    /\ CumulativeMonotone(backend.predecessors)
    /\ Len(outcome[1].path) = 3
    /\ outcome[1].path[1].duration = 1
    /\ outcome[1].path[2].duration = 1
    /\ outcome[1].path[3].duration = 1
    /\ \E k \in MapKeys :
           /\ k \notin Range(KeysOf(outcome[1].path))
           /\ backend.predecessors[k].prev = outcome[1].path[1].key
           /\ backend.predecessors[k].duration = 2

(***************************************************************************)
(* The first_analysis propagation of LongestPathGraphBackend::finish, one  *)
(* loop iteration at a time.                                               *)
(***************************************************************************)
\* Largest number of visibility edges recorded before finish().
MaxVisibility == 2

\* The artifacts a TopLevelTarget signal may reveal.
RevealChoices ==
    {<<Artifact(1)>>, <<Artifact(2)>>, <<ProjectionGroup(1)>>, <<Artifact(2), Artifact(1)>>}

TopLevelChoices ==
    {TopLevelTargetSignal(label, artifacts) : label \in LabelIds, artifacts \in RevealChoices}

\* The nodes recorded before finish(): any of the node signals of Builds,
\* durations aside.
RecordedNodeSets ==
    {n1 \cup n2 \cup a1 \cup a2 \cup p1 :
        n1 \in AtMostOne({x \in Analysis1Signals : x.duration.user = 1}),
        n2 \in AtMostOne(Analysis2Signals),
        a1 \in AtMostOne({x \in Action1Signals : x.duration.user = 1}),
        a2 \in AtMostOne(Action2Signals),
        p1 \in AtMostOne(Projection1Signals)}

\* The sequences of at most n TopLevelTarget signals.
RECURSIVE TopLevelSeqs(_)
TopLevelSeqs(n) ==
    IF n = 0 THEN {<<>>}
    ELSE TopLevelSeqs(n - 1)
             \cup {Append(q, tl) : q \in {r \in TopLevelSeqs(n - 1) : Len(r) = n - 1},
                                   tl \in TopLevelChoices}

\* finish() begins: `let mut first_analysis = graph.allocate_vertex_data(none)`.
PropagationStart(b) ==
    [pc |-> "visibility",
     first_analysis |-> [i \in 1..Len(b.builder.keys) |-> 0],
     visibilities |-> b.top_level_analysis,
     analysis |-> 0,
     artifacts |-> <<>>,
     queue |-> <<>>]

InitPropagate ==
    /\ env = "true"
    /\ scopePc = "awaiting"
    /\ result = "pending"
    /\ scopeRet = "pending"
    /\ senderAlive = TRUE
    /\ clonesAlive = TRUE
    /\ chan = <<>>
    /\ rxPc = "reading"
    /\ events = <<>>
    /\ sent = <<>>
    /\ dispatched = <<>>
    /\ finishCalls = 0
    /\ stopCause = "none"
    /\ outcome = <<>>
    /\ \E nodes \in RecordedNodeSets, tls \in TopLevelSeqs(MaxVisibility) :
           /\ delivered = ByDepth(nodes, 0) \o tls
           /\ build = nodes \cup Range(tls)
           /\ backend = RunSignals(LongestPathGraphBackendNew, ByDepth(nodes, 0) \o tls)
           /\ prop = PropagationStart(RunSignals(LongestPathGraphBackendNew,
                                                 ByDepth(nodes, 0) \o tls))

\* A mutation of the loop body: the `first_analysis[i].is_some()` test is lost.
QueuePopOverwrites(first_analysis, queue, analysis, graph, keys) ==
    LET i == queue[Len(queue)]
        rest == SubSeq(queue, 1, Len(queue) - 1)
    IN  IF keys[i].kind = "Analysis"
        THEN [first_analysis |-> first_analysis, queue |-> rest]
        ELSE [first_analysis |-> [first_analysis EXCEPT ![i] = analysis],
              queue |-> rest \o graph[i]]

\* One iteration of `while let Some(i) = queue.pop()`.
QueuePop(first_analysis, queue, analysis, graph, keys) ==
    LET i == queue[Len(queue)]
        rest == SubSeq(queue, 1, Len(queue) - 1)
    IN  IF first_analysis[i] # 0
        THEN [first_analysis |-> first_analysis, queue |-> rest]
        ELSE IF keys[i].kind = "Analysis"
        THEN [first_analysis |-> first_analysis, queue |-> rest]
        ELSE [first_analysis |-> [first_analysis EXCEPT ![i] = analysis],
              queue |-> rest \o graph[i]]

\* One iteration of `for visibility in &self.top_level_analysis`, up to the
\* inner loop; the loop ends when no visibility edge is left.
StepVisibility ==
    /\ prop.pc = "visibility"
    /\ IF prop.visibilities = <<>>
       THEN prop' = [prop EXCEPT !.pc = "done"]
       ELSE LET visibility == Head(prop.visibilities)
                analysis == VertexOf(backend.builder.keys, visibility.node)
            IN  IF analysis = 0
                THEN prop' = [prop EXCEPT !.visibilities = Tail(@)]
                ELSE prop' = [prop EXCEPT !.visibilities = Tail(@),
                                          !.analysis = analysis,
                                          !.artifacts = visibility.makes_visible,
                                          !.pc = "artifact"]
    /\ UNCHANGED <<build, delivered, backend, outcome>>
    /\ UNCHANGED concurrencyVars

\* One iteration of `for artifact in artifacts`, up to the while loop.
StepArtifact ==
    /\ prop.pc = "artifact"
    /\ IF prop.artifacts = <<>>
       THEN prop' = [prop EXCEPT !.pc = "visibility"]
       ELSE LET artifact == VertexOf(backend.builder.keys, Head(prop.artifacts))
            IN  IF artifact = 0
                THEN prop' = [prop EXCEPT !.artifacts = Tail(@)]
                ELSE prop' = [prop EXCEPT !.artifacts = Tail(@),
                                          !.queue = <<artifact>>,
                                          !.pc = "queue"]
    /\ UNCHANGED <<build, delivered, backend, outcome>>
    /\ UNCHANGED concurrencyVars

\* One iteration of the while loop; it ends when the queue is empty.
StepQueue ==
    /\ prop.pc = "queue"
    /\ IF prop.queue = <<>>
       THEN prop' = [prop EXCEPT !.pc = "artifact"]
       ELSE LET r == QueuePop(prop.first_analysis, prop.queue, prop.analysis,
                              GraphBuilderFinish(backend.builder), backend.builder.keys)
            IN  prop' = [prop EXCEPT !.first_analysis = r.first_analysis,
                                     !.queue = r.queue]
    /\ UNCHANGED <<build, delivered, backend, outcome>>
    /\ UNCHANGED concurrencyVars

NextPropagate ==
    \/ StepVisibility
    \/ StepArtifact
    \/ StepQueue

SpecPropagate == InitPropagate /\ [][NextPropagate]_vars

\* The vertices that are no analysis and are reached from the vertices of
\* roots by out-edges through vertices that are no analysis.
RECURSIVE NonAnalysisReach(_, _, _, _)
NonAnalysisReach(graph, keys, roots, n) ==
    LET open == {v \in roots : keys[v].kind # "Analysis"}
    IN  IF n = 0 THEN open
        ELSE NonAnalysisReach(graph, keys,
                              open \cup UNION {Range(graph[v]) : v \in open}, n - 1)

\* The visibility edges, by position, whose analysis vertex exists and
\* from whose revealed artifacts the vertex is reached.
RevealingEdges(v) ==
    LET keys == backend.builder.keys
        graph == GraphBuilderFinish(backend.builder)
        edges == backend.top_level_analysis
    IN  {e \in 1..Len(edges) :
            /\ VertexOf(keys, edges[e].node) # 0
            /\ v \in NonAnalysisReach(
                         graph, keys,
                         {VertexOf(keys, a) : a \in Range(edges[e].makes_visible)} \ {0},
                         Len(keys))}

\* The slot the claim gives a vertex when the propagation has ended.
ExpectedSlot(v) ==
    IF RevealingEdges(v) = {} THEN 0
    ELSE VertexOf(backend.builder.keys,
                  backend.top_level_analysis[
                      CHOOSE e \in RevealingEdges(v) :
                          \A f \in RevealingEdges(v) : e <= f].node)

\* C22: in the first_analysis propagation of finish() a slot once set is
\* never changed; no vertex with an Analysis key has its slot set; and when
\* the propagation ends every vertex that is no analysis and is reached
\* through such vertices from a revealed artifact of a visibility edge
\* whose analysis vertex exists holds the analysis of the earliest such
\* edge, every other slot is empty, and the slots are those finish()
\* augments the graph with.
C22_FirstAnalysisPropagation ==
    /\ [](\A v \in 1..Len(backend.builder.keys) :
              backend.builder.keys[v].kind = "Analysis" => prop.first_analysis[v] = 0)
    /\ [](prop.pc = "done" =>
              /\ \A v \in 1..Len(backend.builder.keys) :
                     prop.first_analysis[v] = ExpectedSlot(v)
              /\ prop.first_analysis = FirstAnalysis(backend))
    /\ [][\A v \in 1..Len(backend.builder.keys) :
              prop.first_analysis[v] # 0
                  => prop'.first_analysis[v] = prop.first_analysis[v]]_vars

\* C22 witness: the propagation has ended; two visibility edges with
\* different analyses reveal a common vertex, which holds the analysis of
\* the first; another vertex holds the analysis of the second, and a
\* recorded vertex that is no analysis was not revealed.
C22_Witness ==
    /\ prop.pc = "done"
    /\ \E v \in 1..Len(backend.builder.keys) :
           /\ RevealingEdges(v) = {1, 2}
           /\ backend.top_level_analysis[1].node # backend.top_level_analysis[2].node
           /\ prop.first_analysis[v]
                  = VertexOf(backend.builder.keys, backend.top_level_analysis[1].node)
    /\ \E v \in 1..Len(backend.builder.keys) :
           /\ RevealingEdges(v) = {2}
           /\ prop.first_analysis[v] # 0
    /\ \E v \in 1..Len(backend.builder.keys) :
           /\ backend.builder.keys[v].kind # "Analysis"
           /\ prop.first_analysis[v] = 0

(***************************************************************************)
(* SpecRepeat: the receiver's loop fed with signals that may repeat a      *)
(* subject key.  The channel carries whatever the producers send, in any   *)
(* number; nothing in run_and_log or in the handlers filters a key that    *)
(* was seen before.                                                        *)
(***************************************************************************)
MaxCalls == 4

RepeatSignals ==
    {ActionRedirectionSignal(1, 2),
     ActionRedirectionSignal(2, 1),
     ActionExecutionSignal(1, <<>>, 0, NodeDuration(1, 2), 11, FALSE),
     ActionExecutionSignal(2, <<Artifact(1)>>, 0, NodeDuration(1, 2), 12, FALSE),
     AnalysisSignal(1, <<>>, NodeDuration(1, 1), 21),
     TopLevelTargetSignal(1, <<Artifact(1)>>)}

InitRepeat ==
    /\ env \in {"unset", "true"}
    /\ scopePc = "awaiting"
    /\ result = "pending"
    /\ scopeRet = "pending"
    /\ senderAlive = TRUE
    /\ clonesAlive = TRUE
    /\ chan = <<>>
    /\ rxPc = "reading"
    /\ backend = IF unwrap_or_default(get_copied(env).value)
                 THEN LongestPathGraphBackendNew
                 ELSE DefaultBackendNew
    /\ events = <<>>
    /\ sent = <<>>
    /\ dispatched = <<>>
    /\ finishCalls = 0
    /\ stopCause = "none"
    /\ build = {}
    /\ delivered = <<>>
    /\ outcome = <<>>
    /\ prop = NoPropagation

\* One turn of the loop of run_and_log on a signal other than BuildFinished:
\* the arm's handler runs, and `?` ends the loop when it fails.
RepeatDeliver(sig) ==
    /\ rxPc = "reading"
    /\ Len(delivered) < MaxCalls
    /\ LET h == Dispatch(backend, RunAndLogArm(sig), sig)
       IN  IF h.err
           THEN /\ rxPc' = "Err"
                /\ UNCHANGED backend
           ELSE /\ backend' = h.backend
                /\ UNCHANGED rxPc
    /\ delivered' = Append(delivered, sig)
    /\ UNCHANGED <<build, outcome, prop>>
    /\ UNCHANGED <<env, scopePc, result, scopeRet, senderAlive, clonesAlive, chan,
                   events, sent, dispatched, finishCalls, stopCause>>

\* BuildFinished: the loop breaks and backend.finish()? returns.
RepeatFinish ==
    /\ rxPc = "reading"
    /\ \E r \in Finish(backend) :
           /\ outcome' = <<r>>
           /\ rxPc' = IF r.ok THEN "Ok" ELSE "Err"
    /\ UNCHANGED <<build, delivered, backend, prop>>
    /\ UNCHANGED <<env, scopePc, result, scopeRet, senderAlive, clonesAlive, chan,
                   events, sent, dispatched, finishCalls, stopCause>>

\* BuildFinished: the loop breaks and backend.finish() never returns.
RepeatFinishDiverges ==
    /\ rxPc = "reading"
    /\ FinishDiverges(backend)
    /\ rxPc' = "diverged"
    /\ UNCHANGED <<build, delivered, backend, outcome, prop>>
    /\ UNCHANGED <<env, scopePc, result, scopeRet, senderAlive, clonesAlive, chan,
                   events, sent, dispatched, finishCalls, stopCause>>

NextRepeat ==
    \/ \E sig \in RepeatSignals : RepeatDeliver(sig)
    \/ RepeatFinish
    \/ RepeatFinishDiverges

SpecRepeat == InitRepeat /\ [][NextRepeat]_vars

\* The positions of delivered whose process_node call repeats the subject
\* key of an earlier one: the calls the graph builder rejects.
RepeatedPositions(seq) ==
    {i \in 1..Len(seq) :
        /\ IsNode(seq[i])
        /\ \E j \in 1..(i - 1) :
               IsNode(seq[j]) /\ SubjectKey(seq[j]) = SubjectKey(seq[i])}

FirstRepeated(seq) ==
    CHOOSE i \in RepeatedPositions(seq) : \A j \in RepeatedPositions(seq) : i <= j

\* A process_node call is made while the builder slot holds Err(..).
CallOnFailedBuilder ==
    /\ backend.kind = "LongestPath"
    /\ ~backend.builder.ok
    /\ Len(delivered') = Len(delivered) + 1
    /\ IsNode(Incoming)

\* C23: in the longest-path backend, the builder slot holds Err(..) exactly
\* from the first process_node call the graph builder rejects; every later
\* process_node call leaves the backend unchanged and the receiver goes on
\* reading; the receiver fails at BuildFinished only, where finish() returns
\* the error of that first rejected call and no BuildInfo.
C23_FailedBuilderStaysFailed ==
    /\ [][CallOnFailedBuilder => (backend' = backend /\ rxPc' = "reading")]_vars
    /\ [](backend.kind = "LongestPath" =>
              /\ backend.builder.ok <=> RepeatedPositions(delivered) = {}
              /\ rxPc = "Err" => outcome # <<>>
              /\ ~backend.builder.ok =>
                     LET first == delivered[FirstRepeated(delivered)]
                     IN  /\ backend.builder.err = DuplicateKey(SubjectKey(first))
                         /\ rxPc \in {"reading", "Err"}
                         /\ outcome # <<>> =>
                                /\ ~outcome[1].ok
                                /\ outcome[1].err = DuplicateKey(SubjectKey(first))
                                /\ outcome[1].info = BuildInfo(<<>>, 0, 0))

\* C23 witness: the second call repeats ActionKey(1) and is rejected, a node
\* with a new key and a call repeating ActionKey(2) follow, and finish() has
\* returned the error of the call on ActionKey(1).
C23_Witness ==
    /\ backend.kind = "LongestPath"
    /\ outcome # <<>>
    /\ ~outcome[1].ok
    /\ outcome[1].err = DuplicateKey(ActionKey(1))
    /\ Len(delivered) = 4
    /\ RepeatedPositions(delivered) = {2, 4}
    /\ SubjectKey(delivered[3]) = ActionKey(2)
    /\ SubjectKey(delivered[4]) = ActionKey(2)

\* C25: DefaultBackend::finish terminates after any sequence of process_node
\* calls, subject keys processed more than once included: the prev pointers
\* of the predecessor map never form a cycle and the backward walk of
\* extract_critical_path reaches a node with no prev.
C25_DefaultFinishTerminates ==
    backend.kind = "Default" =>
        /\ PrevAcyclic(backend.predecessors)
        /\ \A t \in Terminals(backend.predecessors) :
               ~UnfoldDiverges(backend.predecessors, t)
        /\ rxPc # "diverged"

(***************************************************************************)
(* SpecLive: scope(), the producers and the receiver task under a fair     *)
(* scheduler.  tokio polls a spawned task that can make progress and the   *)
(* future of scope() while it is held; nothing obliges the producers to    *)
(* send or the caller to keep the future, so they get no fairness.         *)
(***************************************************************************)
MaxLiveSignals == 3

\* Two redirections that name each other and an action whose inputs cannot
\* be listed, on which the receiver task ends with an error.
LiveSignals ==
    {ActionRedirectionSignal(1, 2),
     ActionRedirectionSignal(2, 1),
     ActionExecutionSignal(2, <<Artifact(1), Artifact(0)>>, 0,
                           NodeDuration(1, 2), 12, TRUE)}

NextLive ==
    \/ Scope
    \/ Receiver
    \/ \E sig \in LiveSignals : ProducerSignalsUpTo(sig, MaxLiveSignals)
    \/ ProducersDropSender

SpecLive ==
    /\ Init
    /\ [][NextLive]_vars
    /\ WF_vars(Receiver)
    /\ WF_vars(ScopeSignalsFinished)
    /\ WF_vars(ScopeJoins)

\* C24: once the user closure has completed, scope() eventually returns (or
\* its future is dropped by the caller), whatever is still queued and also
\* when the receiver task ended with an error before BuildFinished was
\* sent: scope() never waits for ever on the join.
C24_ScopeEventuallyReturns ==
    (result # "pending") ~> (scopePc \in {"returned", "dropped"})

====
